---- MODULE Spec2Model ----
\* Model of src/game.py: the PutCallGame engine (price generator, problem
\* formulator, SIGALRM countdown, game loop).
\*
\* Representation
\*   - money values (S, r/c, C, P and the derived quantities) are integers in
\*     cents; K is the integer strike; raw random draws are integers in units
\*     of 1e-4 (rng.random() = n / 10000 with n in 0..9999);
\*   - a character is its code point, a string a sequence of code points;
\*   - timer is the cell timer[0].
EXTENDS Integers, Sequences, FiniteSets, TLC

VARIABLES
    modes_allowed,  \* constructor argument, [isint, val]
    time_length,    \* constructor argument, [isint, val]
    raised,         \* "none" or "ValueError": outcome of __init__
    allowed_modes,  \* self.allowed_modes
    score,          \* self.score
    starting_time,  \* self.starting_time
    timer,          \* self.timer[0]
    is_playing,     \* self.is_playing
    handler,        \* disposition of SIGALRM: "SIG_DFL" or "alarm_handler"
    itimer,         \* TRUE while the ITIMER_REAL interval timer is armed
    pc,             \* position of the main thread
    screen,         \* what the terminal shows: "blank", "question", "game_over"
    prices,         \* last dict returned by generate_prices
    problem_type,   \* last mode chosen by generate_problem
    question,       \* market_values: the lines shown to the player
    answer,         \* the expected answer (cents)
    target,         \* str(answer).strip()
    user_input,     \* the answer buffer of play_question
    cursor_pos,     \* cursor_pos of play_question
    ticks,          \* alarm_handler invocations since the main thread last wrote timer[0]
    asked,          \* generate_problem calls since play() set the score
    replayed        \* play() was called again after a completed session

vars == <<modes_allowed, time_length, raised, allowed_modes, score,
          starting_time, timer, is_playing, handler, itimer, pc, screen,
          prices, problem_type, question, answer, target, user_input,
          cursor_pos, ticks, asked, replayed>>

engine == <<modes_allowed, time_length, raised, allowed_modes, starting_time>>
problem == <<prices, problem_type, question, answer, target>>

\* ---------------------------------------------------------------- bounds
MaxTime == 2     \* largest session duration tried
MaxScore == 2    \* the player matches at most this many questions a session
MaxLen == 3      \* the player types at most this many characters a question

\* ------------------------------------------------------------ characters
KEY_BACKSPACE == 263
DEL == 127
ENTER == 10
QMARK == <<63>>

Min(a, b) == IF a < b THEN a ELSE b
Max(a, b) == IF a > b THEN a ELSE b

\* str.isprintable() on chr(ch) for 0 < ch < 256
isprintable(ch) ==
    \/ (32 <= ch /\ ch <= 126)
    \/ (161 <= ch /\ ch <= 255 /\ ch # 173)

\* Python slices s[:j] and s[i:] (clamped to the string)
SliceTo(s, j) == SubSeq(s, 1, Max(0, Min(j, Len(s))))
SliceFrom(s, i) == SubSeq(s, Max(0, Min(i, Len(s))) + 1, Len(s))

RECURSIVE Digits(_)
Digits(n) == IF n < 10 THEN <<48 + n>> ELSE Digits(n \div 10) \o <<48 + (n % 10)>>

\* str() of an integer
str_int(n) == IF n < 0 THEN <<45>> \o Digits(-n) ELSE Digits(n)

\* str() of a float holding a two-decimal value (c cents): the shortest
\* repr, at least one fractional digit
str_float(c) ==
    LET a == IF c < 0 THEN -c ELSE c
        fr == a % 100
        frac == IF fr % 10 = 0 THEN <<48 + (fr \div 10)>>
                ELSE <<48 + (fr \div 10), 48 + (fr % 10)>>
    IN (IF c < 0 THEN <<45>> ELSE <<>>) \o Digits(a \div 100) \o <<46>> \o frac

\* np.round(x, 2) of a value given in units of 1e-4, result in cents
\* (rint: ties go to the even neighbour)
round2(x) ==
    LET q == x \div 100
        r == x % 100
    IN IF r < 50 THEN q
       ELSE IF r > 50 THEN q + 1
       ELSE IF q % 2 = 0 THEN q ELSE q + 1

\* ----------------------------------------------------------- constructor
IntArg(v) == [isint |-> TRUE, val |-> v]
NotInt == [isint |-> FALSE, val |-> 0]

\* modes_allowed & (1 << i), for modes_allowed >= 0
BitSet(m, i) == (m \div (2 ^ i)) % 2 = 1

ModeNames == <<"ONE", "TWO", "THREE", "FOUR", "FIVE">>

RECURSIVE AppendModes(_, _)
AppendModes(m, i) ==
    IF i > 5 THEN <<>>
    ELSE (IF BitSet(m, i - 1) THEN <<ModeNames[i]>> ELSE <<>>) \o AppendModes(m, i + 1)

InvalidModes(m) == (~m.isint) \/ m.val < 1 \/ m.val > 31
\* a duration test that lets 0 through
InvalidTime_negative(t) == (~t.isint) \/ t.val < 0
InvalidTime(t) == (~t.isint) \/ t.val <= 0

NoPrices == [K |-> 0, S |-> 0, rc |-> 0, C |-> 0, P |-> 0]

\* __init__(modes_allowed, time_length, stdscr)
PutCallGame_init(m, t) ==
    /\ modes_allowed = m
    /\ time_length = t
    /\ IF InvalidModes(m) \/ InvalidTime(t)
       THEN /\ raised = "ValueError"
            /\ pc = "raised"
            /\ allowed_modes = <<>>
            /\ starting_time = 0
       ELSE /\ raised = "none"
            /\ pc = "constructed"
            /\ allowed_modes = AppendModes(m.val, 1)
            /\ starting_time = t.val
    /\ score = -1
    /\ timer = -1
    /\ is_playing = FALSE
    /\ handler = "SIG_DFL"
    /\ itimer = FALSE
    /\ screen = "blank"
    /\ prices = NoPrices
    /\ problem_type = "NONE"
    /\ question = <<>>
    /\ answer = 0
    /\ target = <<>>
    /\ user_input = <<>>
    /\ cursor_pos = 0
    /\ ticks = 0
    /\ asked = 0
    /\ replayed = FALSE


\* ------------------------------------------------------- generate_prices
\* the premiums without the moneyness test: the call always takes the
\* first arm
premium_unbranched(K100, S, carry, option_premium) ==
    LET C == S - K100 + carry + option_premium
    IN [C |-> C, P |-> C - S + K100 - carry]

\* the premiums with the carry left out of the derived leg
premium_no_carry(K100, S, carry, option_premium) ==
    IF S + carry >= K100
    THEN LET C == S - K100 + carry + option_premium
         IN [C |-> C, P |-> C - S + K100]
    ELSE LET P == K100 - S - carry + option_premium
         IN [C |-> P + S - K100, P |-> P]

\* the two arms of "if (S + carry >= K)", lines 178-183; K100 is K in cents
premium_branch(K100, S, carry, option_premium) ==
    IF S + carry >= K100
    THEN LET C == S - K100 + carry + option_premium
         IN [C |-> C, P |-> C - S + K100 - carry]
    ELSE LET P == K100 - S - carry + option_premium
         IN [C |-> P + S - K100 + carry, P |-> P]

\* generate_prices() with the "- 10" of line 171 left out
generate_prices_no_offset(k, us, uc, up) ==
    LET K == k * 5
        S == round2(20 * us + K * 10000)
        carry == round2(uc)
        option_premium == round2(10 * up + 100)
        cp == premium_branch(K * 100, S, carry, option_premium)
    IN [K |-> K, S |-> S, rc |-> carry,
        C |-> round2(cp.C * 100), P |-> round2(cp.P * 100)]

\* generate_prices() for the draws k = rng.integers(2,21) and
\* us, uc, up = the three rng.random() values, each in units of 1e-4
generate_prices(k, us, uc, up) ==
    LET K == k * 5
        S == round2(20 * us - 100000 + K * 10000)
        carry == round2(uc)
        option_premium == round2(10 * up + 100)
        cp == premium_branch(K * 100, S, carry, option_premium)
    IN [K |-> K, S |-> S, rc |-> carry,
        C |-> round2(cp.C * 100), P |-> round2(cp.P * 100)]

\* ------------------------------------------------------ generate_problem
Line(label, text) == [label |-> label, text |-> text]

combo_of(p) == round2((p.S - p.K * 100 + p.rc) * 100)
straddle_of(p) == round2((p.C + p.P) * 100)
\* B/W with the signs of S and K exchanged
b_w_swapped(p) == round2((p.C - p.K * 100 + p.S) * 100)
b_w_of(p) == round2((p.C + p.K * 100 - p.S) * 100)
p_s_of(p) == round2((p.P + p.S - p.K * 100) * 100)

\* the three lines S, K, r/c that close every prompt but Combo's
SKrc(p) == <<Line("S", str_float(p.S)), Line("K", str_int(p.K)),
             Line("r/c", str_float(p.rc))>>

\* rng.random() > 0.5, the draw uh in units of 1e-4
HideC(uh) == uh > 5000

\* generate_problem() with the answer of the last arm copied from the arm above
generate_problem_slip(p, mode, uh) ==
    CASE mode = "ONE" ->
           IF HideC(uh)
           THEN [question |-> <<Line("C", QMARK), Line("P", str_float(p.P))>> \o SKrc(p),
                 answer |-> p.C]
           ELSE [question |-> <<Line("C", str_float(p.C)), Line("P", QMARK)>> \o SKrc(p),
                 answer |-> p.P]
      [] mode = "TWO" ->
           [question |-> <<Line("Combo", str_float(combo_of(p))), Line("S", QMARK),
                           Line("K", str_int(p.K)), Line("r/c", str_float(p.rc))>>,
            answer |-> p.S]
      [] mode = "THREE" ->
           IF HideC(uh)
           THEN [question |-> <<Line("C", QMARK), Line("Straddle", str_float(straddle_of(p)))>> \o SKrc(p),
                 answer |-> p.C]
           ELSE [question |-> <<Line("P", QMARK), Line("Straddle", str_float(straddle_of(p)))>> \o SKrc(p),
                 answer |-> p.P]
      [] mode = "FOUR" ->
           IF HideC(uh)
           THEN [question |-> <<Line("C", QMARK), Line("B/W", str_float(b_w_of(p)))>> \o SKrc(p),
                 answer |-> p.C]
           ELSE [question |-> <<Line("P", QMARK), Line("B/W", str_float(b_w_of(p)))>> \o SKrc(p),
                 answer |-> p.P]
      [] mode = "FIVE" ->
           IF HideC(uh)
           THEN [question |-> <<Line("C", QMARK), Line("P&S", str_float(p_s_of(p)))>> \o SKrc(p),
                 answer |-> p.C]
           ELSE [question |-> <<Line("P", QMARK), Line("P&S", str_float(p_s_of(p)))>> \o SKrc(p),
                 answer |-> p.C]

\* generate_problem() after prices = generate_prices(), for the chosen
\* problem_type and the draw uh deciding the hidden field
generate_problem(p, mode, uh) ==
    CASE mode = "ONE" ->
           IF HideC(uh)
           THEN [question |-> <<Line("C", QMARK), Line("P", str_float(p.P))>> \o SKrc(p),
                 answer |-> p.C]
           ELSE [question |-> <<Line("C", str_float(p.C)), Line("P", QMARK)>> \o SKrc(p),
                 answer |-> p.P]
      [] mode = "TWO" ->
           [question |-> <<Line("Combo", str_float(combo_of(p))), Line("S", QMARK),
                           Line("K", str_int(p.K)), Line("r/c", str_float(p.rc))>>,
            answer |-> p.S]
      [] mode = "THREE" ->
           IF HideC(uh)
           THEN [question |-> <<Line("C", QMARK), Line("Straddle", str_float(straddle_of(p)))>> \o SKrc(p),
                 answer |-> p.C]
           ELSE [question |-> <<Line("P", QMARK), Line("Straddle", str_float(straddle_of(p)))>> \o SKrc(p),
                 answer |-> p.P]
      [] mode = "FOUR" ->
           IF HideC(uh)
           THEN [question |-> <<Line("C", QMARK), Line("B/W", str_float(b_w_of(p)))>> \o SKrc(p),
                 answer |-> p.C]
           ELSE [question |-> <<Line("P", QMARK), Line("B/W", str_float(b_w_of(p)))>> \o SKrc(p),
                 answer |-> p.P]
      [] mode = "FIVE" ->
           IF HideC(uh)
           THEN [question |-> <<Line("C", QMARK), Line("P&S", str_float(p_s_of(p)))>> \o SKrc(p),
                 answer |-> p.C]
           ELSE [question |-> <<Line("P", QMARK), Line("P&S", str_float(p_s_of(p)))>> \o SKrc(p),
                 answer |-> p.P]

\* a problem whose mode is chosen among all five modes
NewProblem_any_mode(k, us, uc, up, i, uh) ==
    LET p == generate_prices(k, us, uc, up)
        mode == ModeNames[i]
        pr == generate_problem(p, mode, uh)
    IN /\ prices' = p
       /\ problem_type' = mode
       /\ question' = pr.question
       /\ answer' = pr.answer
       /\ target' = str_float(pr.answer)

\* lines 284-286 of play_question: the problem and its target string
NewProblem(k, us, uc, up, i, uh) ==
    LET p == generate_prices(k, us, uc, up)
        mode == allowed_modes[i]
        pr == generate_problem(p, mode, uh)
    IN /\ prices' = p
       /\ problem_type' = mode
       /\ question' = pr.question
       /\ answer' = pr.answer
       /\ target' = str_float(pr.answer)


\* --------------------------------------------------------- SIGALRM clock
\* a handler that stops one second early
alarm_handler_stuck(t) == IF t > 1 THEN t - 1 ELSE t

\* a handler whose guard is one off and steps below the sentinel
alarm_handler_late(t) == IF t >= -1 THEN t - 1 ELSE t

\* alarm_handler: the new value of timer[0]
alarm_handler(t) == IF t >= 0 THEN t - 1 ELSE t

\* the count of handler invocations saturates once it exceeds every duration
TickCap == MaxTime + 2
CountTick(n) == IF n < TickCap THEN n + 1 ELSE n

\* the edit with a backspace that drops the first character
edit_first(ch, ui, cp) ==
    IF ch = KEY_BACKSPACE \/ ch = DEL
    THEN IF cp > 0
         THEN [user_input |-> SliceFrom(ui, 1), cursor_pos |-> cp - 1]
         ELSE [user_input |-> ui, cursor_pos |-> cp]
    ELSE IF 0 < ch /\ ch < 256 /\ isprintable(ch)
         THEN [user_input |-> SliceTo(ui, cp) \o <<ch>> \o SliceFrom(ui, cp), cursor_pos |-> cp + 1]
         ELSE [user_input |-> ui, cursor_pos |-> cp]

\* --------------------------------------------------------- play_question
\* lines 317-323: the edit of the answer buffer for the event ch
edit(ch, ui, cp) ==
    IF ch = KEY_BACKSPACE \/ ch = DEL
    THEN IF cp > 0
         THEN [user_input |-> SliceTo(ui, cp - 1) \o SliceFrom(ui, cp), cursor_pos |-> cp - 1]
         ELSE [user_input |-> ui, cursor_pos |-> cp]
    ELSE IF 0 < ch /\ ch < 256 /\ isprintable(ch)
         THEN [user_input |-> SliceTo(ui, cp) \o <<ch>> \o SliceFrom(ui, cp), cursor_pos |-> cp + 1]
         ELSE [user_input |-> ui, cursor_pos |-> cp]

\* a comparison that accepts a typed prefix of the target
Matches_prefix(ui, tg) == Len(ui) > 0 /\ Len(ui) <= Len(tg) /\ ui = SubSeq(tg, 1, Len(ui))

\* line 325: user_input == target
Matches(ui, tg) == ui = tg

\* lines 317-332, run when getch() has returned ch
after_getch(ch) ==
    LET e == edit(ch, user_input, cursor_pos)
    IN /\ user_input' = e.user_input
       /\ cursor_pos' = e.cursor_pos
       /\ IF Matches(e.user_input, target)
          THEN /\ score' = score + 1
               /\ pc' = "play_loop"
          ELSE /\ score' = score
               /\ pc' = "loop"

\* the keys the player presses: both delete keys, Enter, a function key
\* (KEY_F(1) = 265, a code above 255) and the characters 5 . r
Keys == {KEY_BACKSPACE, DEL, ENTER, 265, 53, 46, 114}

\* the player is followed while matching at most MaxScore questions a
\* session and typing at most MaxLen characters a question
WithinBounds(ch) ==
    LET e == edit(ch, user_input, cursor_pos)
    IN /\ Len(e.user_input) <= MaxLen
       /\ Matches(e.user_input, target) => score < MaxScore

\* ------------------------------------------------------------ the draws
\* draws of the session: K = 10, S in {5.5, 10.0}, r/c = 0.5, premium 5.5,
\* which give the prices (C, P) = (5.5, 9.5) and (6.0, 5.5)
GameK == {2}
GameS == {2750, 5000}
GameC == {5000}
GameP == {5490}
HideDraws == {5000, 5001}

\* a start of play() that forgets "self.score = 0"
play_begin_keeps_score ==
    /\ pc \in {"constructed", "returned"}
    /\ score' = score
    /\ timer' = starting_time
    /\ is_playing' = TRUE
    /\ screen' = "blank"
    /\ ticks' = 0
    /\ asked' = 0
    /\ replayed' = (replayed \/ pc = "returned")
    /\ pc' = "play_signal"
    /\ UNCHANGED <<engine, problem, handler, itimer, user_input, cursor_pos>>

\* a start of play() that sets the timer only on a fresh engine
play_begin_timer_once ==
    /\ pc \in {"constructed", "returned"}
    /\ score' = 0
    /\ timer' = IF pc = "constructed" THEN starting_time ELSE timer
    /\ is_playing' = TRUE
    /\ screen' = "blank"
    /\ ticks' = 0
    /\ asked' = 0
    /\ replayed' = (replayed \/ pc = "returned")
    /\ pc' = "play_signal"
    /\ UNCHANGED <<engine, problem, handler, itimer, user_input, cursor_pos>>

\* -------------------------------------------------------------- play()
\* lines 110-115
play_begin ==
    /\ pc \in {"constructed", "returned"}
    /\ score' = 0
    /\ timer' = starting_time
    /\ is_playing' = TRUE
    /\ screen' = "blank"
    /\ ticks' = 0
    /\ asked' = 0
    /\ replayed' = (replayed \/ pc = "returned")
    /\ pc' = "play_signal"
    /\ UNCHANGED <<engine, problem, handler, itimer, user_input, cursor_pos>>

\* lines 119-129: install the handler, arm the interval timer
play_signal ==
    /\ pc = "play_signal"
    /\ handler' = "alarm_handler"
    /\ itimer' = TRUE
    /\ screen' = "blank"
    /\ pc' = "play_loop"
    /\ UNCHANGED <<engine, replayed, problem, score, timer, is_playing, user_input, cursor_pos, ticks, asked>>

\* line 133: while (self.is_playing)
play_while ==
    /\ pc = "play_loop"
    /\ pc' = IF is_playing THEN "play_question" ELSE "game_over"
    /\ UNCHANGED <<engine, replayed, problem, score, timer, is_playing, handler, itimer, screen,
                   user_input, cursor_pos, ticks, asked>>

\* lines 284-292: a new problem, an empty buffer
play_question_begin ==
    /\ pc = "play_question"
    /\ \E k \in GameK, us \in GameS, uc \in GameC, up \in GameP,
          i \in 1..Len(allowed_modes), uh \in HideDraws :
          NewProblem(k, us, uc, up, i, uh)
    /\ user_input' = <<>>
    /\ cursor_pos' = 0
    /\ screen' = "blank"
    /\ asked' = asked + 1
    /\ pc' = "loop"
    /\ UNCHANGED <<engine, replayed, score, timer, is_playing, handler, itimer, ticks>>

\* lines 294-310: while (self.is_playing), then the rendering
question_while ==
    /\ pc = "loop"
    /\ IF is_playing
       THEN /\ screen' = "question"
            /\ pc' = "check"
       ELSE /\ screen' = screen
            /\ pc' = "play_loop"
    /\ UNCHANGED <<engine, replayed, problem, score, timer, is_playing, handler, itimer,
                   user_input, cursor_pos, ticks, asked>>

\* an expiry check that fires with one second left
expiry_check_early ==
    /\ pc = "check"
    /\ is_playing' = IF timer <= 1 THEN FALSE ELSE is_playing
    /\ pc' = "getch"
    /\ UNCHANGED <<engine, replayed, problem, score, timer, handler, itimer, screen,
                   user_input, cursor_pos, ticks, asked>>

\* lines 312-313: the expiry check; the loop goes on to getch()
expiry_check ==
    /\ pc = "check"
    /\ is_playing' = IF timer <= 0 THEN FALSE ELSE is_playing
    /\ pc' = "getch"
    /\ UNCHANGED <<engine, replayed, problem, score, timer, handler, itimer, screen,
                   user_input, cursor_pos, ticks, asked>>

\* lines 315-332: getch() returns a key of the player
getch_key ==
    /\ pc = "getch"
    /\ \E ch \in Keys :
          /\ WithinBounds(ch)
          /\ after_getch(ch)
    /\ UNCHANGED <<engine, replayed, problem, timer, is_playing, handler, itimer, screen, ticks, asked>>

\* SIGALRM is delivered: alarm_handler runs in the main thread; a getch()
\* that was blocked returns -1 (EINTR) and the code after it runs
alarm ==
    /\ itimer
    /\ handler = "alarm_handler"
    /\ timer' = alarm_handler(timer)
    /\ ticks' = CountTick(ticks)
    /\ IF pc = "getch"
       THEN after_getch(-1)
       ELSE UNCHANGED <<user_input, cursor_pos, score, pc>>
    /\ UNCHANGED <<engine, replayed, problem, is_playing, handler, itimer, screen, asked>>

\* a game-over step that stops the clock before it renders
game_over_stops_clock ==
    /\ pc = "game_over"
    /\ itimer' = FALSE
    /\ handler' = "SIG_DFL"
    /\ screen' = "game_over"
    /\ pc' = "wait_r"
    /\ UNCHANGED <<engine, replayed, problem, score, timer, is_playing,
                   user_input, cursor_pos, ticks, asked>>

\* lines 136-141
game_over ==
    /\ pc = "game_over"
    /\ screen' = "game_over"
    /\ pc' = "wait_r"
    /\ UNCHANGED <<engine, replayed, problem, score, timer, is_playing, handler, itimer,
                   user_input, cursor_pos, ticks, asked>>

\* line 143, wait_for_char(stdscr, "r"): chr(ch) == "r"
wait_for_char ==
    /\ pc = "wait_r"
    /\ \E ch \in Keys : pc' = IF ch = 114 THEN "reset" ELSE "wait_r"
    /\ UNCHANGED <<engine, replayed, problem, score, timer, is_playing, handler, itimer, screen,
                   user_input, cursor_pos, ticks, asked>>

\* a reset that forgets the timer cell
reset_fields_keeps_timer ==
    /\ pc = "reset"
    /\ timer' = timer
    /\ score' = -1
    /\ ticks' = 0
    /\ pc' = "reset_itimer"
    /\ UNCHANGED <<engine, replayed, problem, is_playing, handler, itimer, screen,
                   user_input, cursor_pos, asked>>

\* reset(), lines 94-95
reset_fields ==
    /\ pc = "reset"
    /\ timer' = -1
    /\ score' = -1
    /\ ticks' = 0
    /\ pc' = "reset_itimer"
    /\ UNCHANGED <<engine, replayed, problem, is_playing, handler, itimer, screen,
                   user_input, cursor_pos, asked>>

\* reset(), line 98: setitimer(ITIMER_REAL, 0)
reset_itimer ==
    /\ pc = "reset_itimer"
    /\ itimer' = FALSE
    /\ pc' = "reset_signal"
    /\ UNCHANGED <<engine, replayed, problem, score, timer, is_playing, handler, screen,
                   user_input, cursor_pos, ticks, asked>>

\* reset(), lines 100-102, and the return of play(): the locals of the
\* last play_question call are gone
reset_signal ==
    /\ pc = "reset_signal"
    /\ handler' = "SIG_DFL"
    /\ is_playing' = FALSE
    /\ pc' = "returned"
    /\ prices' = NoPrices
    /\ problem_type' = "NONE"
    /\ question' = <<>>
    /\ answer' = 0
    /\ target' = <<>>
    /\ user_input' = <<>>
    /\ cursor_pos' = 0
    /\ UNCHANGED <<engine, replayed, score, timer, itimer, screen, ticks, asked>>

\* ------------------------------------------------------- specifications
\* constructor arguments of the session specification
GameModes == {IntArg(0), IntArg(3), IntArg(20), IntArg(32), NotInt}
GameTimes == {IntArg(v) : v \in 0..MaxTime} \cup {NotInt}

Init == \E m \in GameModes, t \in GameTimes : PutCallGame_init(m, t)

MainStep ==
    \/ play_signal
    \/ play_while
    \/ play_question_begin
    \/ question_while
    \/ expiry_check
    \/ game_over
    \/ reset_fields
    \/ reset_itimer
    \/ reset_signal

Next ==
    \/ play_begin
    \/ MainStep
    \/ getch_key
    \/ alarm
    \/ wait_for_char

Spec == Init /\ [][Next]_vars

\* the interval timer keeps firing and the main thread keeps running
LiveSpec == Spec /\ WF_vars(alarm) /\ WF_vars(MainStep)


\* generation on its own: every constructor argument, then one
\* generate_problem() call with draws that reach both arms of the moneyness
\* test, the boundary S + carry = K, the rounding ties and the extreme
\* premiums 0.01 and 10.01
AllModes == {IntArg(v) : v \in (0 - 2)..34} \cup {NotInt}
AllTimes == {IntArg(v) : v \in (0 - 1)..MaxTime} \cup {NotInt}
AllK == 2..20
DrawS == {0, 4975, 5000, 9999}
DrawC == {0, 450, 500, 9950, 9999}
DrawP == {0, 5, 4990, 9999}

GenInit == \E m \in AllModes, t \in AllTimes : PutCallGame_init(m, t)

\* generate_problem(), lines 214-276, and the target of line 286
generate ==
    /\ pc = "constructed"
    /\ \E k \in AllK, us \in DrawS, uc \in DrawC, up \in DrawP,
          i \in 1..Len(allowed_modes), uh \in HideDraws :
          NewProblem(k, us, uc, up, i, uh)
    /\ pc' = "generated"
    /\ UNCHANGED <<engine, replayed, score, timer, is_playing, handler, itimer, screen,
                   user_input, cursor_pos, ticks, asked>>

GenNext == generate

GenSpec == GenInit /\ [][GenNext]_vars

\* ------------------------------------------------------------ the claims
\* the main thread is inside play(), between the assignments of lines
\* 113-115 and the call of reset()
SessionPcs == {"play_signal", "play_loop", "play_question", "loop", "check",
               "getch", "game_over", "wait_r"}

\* C1: once the expiry check has seen timer[0] <= 0 (is_playing is false and
\* the loop stands at getch), no event is applied to the buffer any more and
\* the score keeps its value
C1_NoInputAfterExpiry ==
    [][(pc = "getch" /\ ~is_playing) => (user_input' = user_input /\ score' = score)]_vars

\* C2: once play() has armed the clock, the loop reaches the GAME OVER
\* screen with is_playing false, whatever the player types or does not type
C2_SessionEnds ==
    (is_playing /\ itimer) ~> (~is_playing /\ pc = "wait_r" /\ screen = "game_over")

\* the session ended on a question the player never typed into
C2_Witness ==
    /\ pc = "wait_r"
    /\ ~is_playing
    /\ asked = 1
    /\ score = 0
    /\ user_input = <<>>

\* C3: in a session the score moves only by +1, exactly when an event leaves
\* the buffer equal to the target, and the question is left at once; the
\* score is the number of questions asked minus the open or abandoned one
C3_Counts ==
    pc \in SessionPcs =>
        /\ score >= 0
        /\ pc \in {"loop", "check", "getch"} => score = asked - 1
        /\ pc \in {"play_signal", "play_question"} => score = asked
        /\ pc \in {"play_loop", "game_over", "wait_r"} =>
               (score = asked \/ (score = asked - 1 /\ ~is_playing))

C3_Step ==
    (pc \in SessionPcs /\ pc' \in SessionPcs) =>
        /\ score' # score =>
               (score' = score + 1 /\ pc = "getch" /\ user_input' = target /\ pc' = "play_loop")
        /\ (pc = "getch" /\ pc' # "getch" /\ user_input' = target) => score' = score + 1
        /\ (pc = "getch" /\ user_input' # target) => score' = score

C3_ScoreByMatch == [](C3_Counts) /\ [][C3_Step]_vars

\* a second question was matched right after its last character
C3_Witness ==
    /\ pc = "play_loop"
    /\ score = 2
    /\ asked = 2
    /\ user_input = target

C5_Detached == pc \in {"reset_signal", "returned", "constructed"} => ~itimer

C5_TickStep ==
    (alarm /\ pc \in {"reset_itimer", "reset_signal", "returned"}) =>
        (timer' = timer /\ score' = score /\ is_playing' = is_playing)

C5_TicksAfterReset == [](C5_Detached) /\ [][C5_TickStep]_vars

\* a tick was delivered between the assignments of reset() and setitimer
C5_Witness == pc = "reset_itimer" /\ ticks > 0 /\ timer = -1 /\ score = -1

\* C6: N ticks after the start leave starting_time - N while N <= T and a
\* value <= 0 after that
C6_Countdown ==
    pc \in SessionPcs =>
        IF ticks <= starting_time
        THEN timer = starting_time - ticks
        ELSE timer <= 0

\* the expiry check is about to read 0 after exactly T ticks
C6_Witness == pc = "check" /\ starting_time = 2 /\ ticks = 2 /\ timer = 0


\* -------------------------------------------- reading the prompt back
RECURSIVE DigitsValue(_)
DigitsValue(ds) ==
    IF Len(ds) = 0 THEN 0
    ELSE 10 * DigitsValue(SubSeq(ds, 1, Len(ds) - 1)) + (ds[Len(ds)] - 48)

\* the cents a displayed number stands for: [-]digits[.d[d]]
ReadCents(txt) ==
    LET neg == txt[1] = 45
        body == IF neg THEN Tail(txt) ELSE txt
        dots == {i \in 1..Len(body) : body[i] = 46}
        dot == IF dots = {} THEN Len(body) + 1 ELSE CHOOSE i \in dots : TRUE
        fr == SubSeq(body, dot + 1, Len(body))
        frv == IF Len(fr) = 0 THEN 0
               ELSE IF Len(fr) = 1 THEN 10 * (fr[1] - 48)
               ELSE 10 * (fr[1] - 48) + (fr[2] - 48)
        v == 100 * DigitsValue(SubSeq(body, 1, dot - 1)) + frv
    IN IF neg THEN 0 - v ELSE v

\* the labels of the lines shown as "?" and the value shown for a label
HiddenLabels(q) == {q[i].label : i \in {j \in 1..Len(q) : q[j].text = QMARK}}
Visible(q, label) ==
    ReadCents(q[CHOOSE i \in 1..Len(q) : q[i].label = label /\ q[i].text # QMARK].text)

\* the answer a satisfies the formula of the mode on the visible fields
Solves(mode, q, a) ==
    LET h == CHOOSE l \in HiddenLabels(q) : TRUE
        S == Visible(q, "S")
        K == Visible(q, "K")
        rc == Visible(q, "r/c")
    IN CASE mode = "ONE" ->
              IF h = "C" THEN a = Visible(q, "P") + S - K + rc
              ELSE a = Visible(q, "C") - S + K - rc
         [] mode = "TWO" -> h = "S" /\ a = Visible(q, "Combo") + K - rc
         [] mode = "THREE" ->
              IF h = "C" THEN 2 * a = Visible(q, "Straddle") + (S - K + rc)
              ELSE 2 * a = Visible(q, "Straddle") - (S - K + rc)
         [] mode = "FOUR" ->
              IF h = "C" THEN a = Visible(q, "B/W") - K + S
              ELSE a = Visible(q, "B/W") - rc
         [] mode = "FIVE" ->
              IF h = "P" THEN a = Visible(q, "P&S") - S + K
              ELSE a = Visible(q, "P&S") + rc

\* C7: every generated PriceSet satisfies parity, C - P = S - K + carry in
\* cents
C7_Parity ==
    pc = "generated" => prices.C - prices.P = prices.S - prices.K * 100 + prices.rc

\* a PriceSet of the second arm (S + carry < K) with a non-zero carry
C7_Witness ==
    /\ pc = "generated"
    /\ prices.S + prices.rc < prices.K * 100
    /\ prices.rc = 5
    /\ prices.P > prices.C

\* C8: every generated PriceSet has C > 0 and P > 0
C8_Positive == pc = "generated" => (prices.C > 0 /\ prices.P > 0)

\* the boundary S + carry = K with the least premium, and S at its lowest
C8_Witness ==
    /\ pc = "generated"
    /\ prices.S + prices.rc = prices.K * 100
    /\ prices.S < prices.K * 100
    /\ prices.C = 1
    /\ prices.P = 1

\* C9: the expected answer is the value the formula of the mode gives on the
\* fields shown in the prompt, and it is the target the player must type
C9_AnswerFromVisible ==
    pc = "generated" =>
        /\ Cardinality(HiddenLabels(question)) = 1
        /\ Solves(problem_type, question, answer)
        /\ ReadCents(target) = answer

\* a Buy-Write prompt hiding P, on prices with a fractional carry
C9_Witness ==
    /\ pc = "generated"
    /\ problem_type = "FOUR"
    /\ HiddenLabels(question) = {"P"}
    /\ prices.rc = 5
    /\ prices.S # prices.K * 100

C11_StrikeAndSpot ==
    pc = "generated" =>
        /\ prices.K % 5 = 0
        /\ 10 <= prices.K /\ prices.K <= 100
        /\ prices.K * 100 - 1000 <= prices.S
        /\ prices.S <= prices.K * 100 + 1000

\* the highest strike with the draw 0.9999, which rounds up to K + 10
C11_Witness == pc = "generated" /\ prices.K = 100 /\ prices.S = 11000


\* event codes tried on every buffer: an interrupted read, 0, control
\* codes, printable ASCII, DEL, the C1 controls, NBSP, Latin-1 letters, the
\* soft hyphen, 255, and curses key codes above 255
EventCodes == {0 - 1, 0, 1, 10, 27, 31, 32, 46, 53, 114, 126, 127, 128, 160,
               161, 173, 255, 256, 263, 265, 300}

\* what the buffer is to become on the event ch
ExpectedBuffer(ch, ui) ==
    IF ch = 263 \/ ch = 127
    THEN IF Len(ui) = 0 THEN ui ELSE SubSeq(ui, 1, Len(ui) - 1)
    ELSE IF ch \in (32..126) \cup ((161..255) \ {173})
         THEN Append(ui, ch)
         ELSE ui

C12_EditOnBuffer ==
    pc \in {"loop", "check", "getch"} =>
        /\ cursor_pos = Len(user_input)
        /\ \A ch \in EventCodes :
               edit(ch, user_input, cursor_pos).user_input = ExpectedBuffer(ch, user_input)

C12_Step ==
    /\ (pc = "play_question" /\ pc' = "loop") => (user_input' = <<>> /\ cursor_pos' = 0)
    /\ \A ch \in Keys \cup {0 - 1} :
           (pc = "getch" /\ after_getch(ch)) => user_input' = ExpectedBuffer(ch, user_input)
    /\ pc = "getch" =>
           \E ch \in Keys \cup {0 - 1} : user_input' = ExpectedBuffer(ch, user_input)
    /\ pc \in {"loop", "check"} => user_input' = user_input

\* C12: a delete key removes exactly the last character (nothing on the
\* empty buffer), a printable character is appended at the end, every other
\* event leaves the buffer alone, and every question starts on an empty
\* buffer
C12_BufferEditing == [](C12_EditOnBuffer) /\ [][C12_Step]_vars

\* the buffer of a second question, started empty, holds one character
C12_Witness ==
    /\ pc = "loop"
    /\ asked = 2
    /\ user_input = <<46>>
    /\ cursor_pos = 1


\* the main thread has left the game loop and has not yet called reset()
EndedPcs == {"game_over", "wait_r"}

\* C13 as stated: the clock is stopped before the final score is rendered
\* and before the wait for the acknowledgment
C13_ClockStoppedAtEnded == pc \in EndedPcs => ~itimer

C13_StillArmed == pc \in EndedPcs \cup {"reset"} => (itimer /\ handler = "alarm_handler")

C13_EndedStep ==
    /\ pc \in EndedPcs =>
           /\ timer' <= timer
           /\ timer' >= -1
           /\ score' = score
           /\ is_playing' = is_playing
    /\ (itimer /\ ~itimer') => pc = "reset_itimer"
    /\ (handler = "alarm_handler" /\ handler' # handler) => pc = "reset_signal"

\* C13, amended: the clock is stopped only by reset(), after the
\* acknowledgment; while the final score is shown ticks are still delivered
\* and can take timer[0] from 0 to -1, never up and never below -1, and they
\* change neither score nor is_playing
C13_ClockRunsUntilReset == [](C13_StillArmed) /\ [][C13_EndedStep]_vars

\* the final score is shown, the timer is armed and the next tick will
\* change remaining()
C13_Witness == pc = "wait_r" /\ screen = "game_over" /\ itimer /\ timer = 0


C15_ModeEnabled ==
    problem_type # "NONE" =>
        /\ \E j \in 1..Len(allowed_modes) : allowed_modes[j] = problem_type
        /\ \E i \in 1..5 :
               /\ ModeNames[i] = problem_type
               /\ (modes_allowed.val \div (2 ^ (i - 1))) % 2 = 1

C15_Frame ==
    /\ allowed_modes' = allowed_modes
    /\ starting_time' = starting_time

\* C15: the mode of every problem of a session is one of the modes enabled
\* at construction, and no step changes the enabled modes or the duration
C15_ModesFixed == [](C15_ModeEnabled) /\ [][C15_Frame]_vars

\* a Put-Summary question on the engine built with modes_allowed = 0b10100,
\* in its second question
C15_Witness ==
    /\ pc = "getch"
    /\ modes_allowed = IntArg(20)
    /\ problem_type = "FIVE"
    /\ asked = 2


\* the lines of a prompt shown as "?" and the labels shown with a value
HiddenLines(q) == {i \in 1..Len(q) : q[i].text = QMARK}
ShownLabels(q) == {q[i].label : i \in {j \in 1..Len(q) : q[j].text # QMARK}}
FieldOf(p, l) == CASE l = "C" -> p.C [] l = "P" -> p.P [] l = "S" -> p.S

\* C16: a prompt marks exactly one field unknown and the answer is that
\* field's value; Combo hides S and does not show it; the other modes hide C
\* or P, and Straddle, B/W and P&S show neither C nor P
C16_OneHiddenField ==
    pc = "generated" =>
        /\ Cardinality(HiddenLines(question)) = 1
        /\ LET h == question[CHOOSE i \in HiddenLines(question) : TRUE].label
               shown == ShownLabels(question)
           IN /\ h \in {"C", "P", "S"}
              /\ h \notin shown
              /\ answer = FieldOf(prices, h)
              /\ Cardinality(shown) + 1 = Len(question)
              /\ problem_type = "ONE" =>
                     (h \in {"C", "P"} /\ shown = ({"C", "P"} \ {h}) \cup {"S", "K", "r/c"})
              /\ problem_type = "TWO" => (h = "S" /\ shown = {"Combo", "K", "r/c"})
              /\ problem_type = "THREE" =>
                     (h \in {"C", "P"} /\ shown = {"Straddle", "S", "K", "r/c"})
              /\ problem_type = "FOUR" =>
                     (h \in {"C", "P"} /\ shown = {"B/W", "S", "K", "r/c"})
              /\ problem_type = "FIVE" =>
                     (h \in {"C", "P"} /\ shown = {"P&S", "S", "K", "r/c"})

\* a Put-Summary prompt hiding P on prices whose C and P differ
C16_Witness ==
    /\ pc = "generated"
    /\ problem_type = "FIVE"
    /\ question[1] = Line("P", QMARK)
    /\ prices.C # prices.P


C17_Expired == (pc \in SessionPcs \cup {"reset"} /\ ~is_playing) => timer <= 0

C17_Step ==
    /\ (is_playing /\ ~is_playing') => (pc = "check" /\ timer <= 0 /\ timer' = timer)
    /\ (pc \in {"loop", "check", "getch"} /\ pc' = "play_loop" /\ user_input' # target) =>
           ~is_playing
    /\ (pc = "play_loop" /\ pc' = "game_over") => ~is_playing

\* C17: is_playing becomes false only in the expiry check, on timer[0] <= 0;
\* no key, match or tick ends the session, and a question is left unmatched
\* only after that observation
C17_EndsOnlyOnExpiry == [](C17_Expired) /\ [][C17_Step]_vars

\* a question abandoned on expiry after one matched question
C17_Witness ==
    /\ pc = "play_loop"
    /\ ~is_playing
    /\ user_input # target
    /\ score = 1
    /\ asked = 2


C18_Range == raised = "none" => (-1 <= timer /\ timer <= starting_time)

C18_Step ==
    /\ (pc \in SessionPcs /\ pc' \in SessionPcs) => timer' <= timer
    /\ (alarm /\ timer = 0) => timer' = -1
    /\ (alarm /\ timer = -1) => timer' = -1
    /\ timer' # timer => (alarm \/ pc \in {"constructed", "returned", "reset"})

\* C18: -1 <= timer[0] <= starting_time always; inside a session it never
\* increases, a tick at 0 gives -1 and ticks at -1 leave -1
C18_TimerRange == [](C18_Range) /\ [][C18_Step]_vars

\* the acknowledgment is awaited and at least one tick has found the timer
\* at -1
C18_Witness ==
    /\ pc = "wait_r"
    /\ timer = -1
    /\ starting_time = MaxTime
    /\ ticks = TickCap


\* the session variables as play() leaves them at line 115 on an engine
\* built with the same arguments
FreshSession ==
    /\ score = 0
    /\ timer = time_length.val
    /\ timer = starting_time
    /\ is_playing
    /\ handler = "SIG_DFL"
    /\ ~itimer
    /\ screen = "blank"
    /\ problem = <<NoPrices, "NONE", <<>>, 0, <<>>>>
    /\ user_input = <<>>
    /\ cursor_pos = 0
    /\ ticks = 0
    /\ asked = 0
    /\ allowed_modes = AppendModes(modes_allowed.val, 1)

C19_SameStart == pc = "play_signal" => FreshSession

C19_Step ==
    /\ (replayed /\ play_signal) => (handler' = "alarm_handler" /\ itimer')
    /\ (replayed /\ alarm /\ timer > 0) => timer' = timer - 1
    /\ (replayed /\ pc = "play_question" /\ pc' = "loop") => asked' = asked + 1

\* C19: play() called again after a completed session starts from the state
\* the first session started from (score 0, timer[0] = time_length,
\* is_playing, nothing left of the previous session), registers the handler
\* again and the handler decrements again
C19_Reusable == [](C19_SameStart) /\ [][C19_Step]_vars

\* a second session on the same engine has had its first tick
C19_Witness ==
    /\ replayed
    /\ pc = "getch"
    /\ starting_time = MaxTime
    /\ ticks = 1
    /\ timer = starting_time - 1
    /\ score = 0

====
